---- MODULE Spec2Model ----
(***************************************************************************)
(* Model of deepshell's TaskManager (src/src/core/task_manager.py): a      *)
(* single-worker asyncio queue that serialises asynchronous units of work  *)
(* and hands each result back to the caller of enqueue(); and of its       *)
(* CommandExecutor (src/utils/shell_utils.py), which confirms a shell      *)
(* command with the human, spawns it, reads its output while a monitor     *)
(* task watches it, and records the result in its history.                 *)
(*                                                                         *)
(* asyncio runs everything on one thread.  A coroutine runs without        *)
(* interruption until it awaits something that is not finished, so every   *)
(* action below is one such uninterrupted stretch of code.  Continuations  *)
(* (a new task's first step, the wake-up of a task whose awaited future    *)
(* finished or was cancelled) are handles that the event loop runs in      *)
(* FIFO order: the variable `ready`.  Calls coming from the rest of the    *)
(* program (enqueue, start, stop, cancelling a caller) and the completion  *)
(* of the I/O a unit of work waits for may happen between any two handles. *)
(***************************************************************************)
EXTENDS Integers, Sequences, FiniteSets, TLC

\* ------------------------------------------------------------------ bounds
NCallers == 3
MaxWorkers == 2
NStoppers == 2
\* CommandExecutor: start() calls made, lines written by the commands'
\* processes (over all calls), and MAX_OUTPUT_LINES of config.settings
MaxCalls == 1
MaxLines == 2
MAX_OUTPUT_LINES == 1

Callers == 1..NCallers
Workers == 1..MaxWorkers
Stoppers == 1..NStoppers

\* ------------------------------------------------------- units of work
\* The callables handed to enqueue().  "fetch" returns a value computed from
\* its argument and lets a cancellation propagate; "job" raises an Exception;
\* "shell" returns a value and, when cancelled at its await, swallows the
\* CancelledError and returns the partial output (CommandExecutor's reading
\* loop); "plain" is an ordinary (non-async) function.
Funcs == {"fetch", "job", "shell", "plain"}
\* the same, and a unit of work that itself calls enqueue() and awaits it
UnitFuncs == Funcs \cup {"relay"}
\* the argument tuples a caller may pass: none, or one value of its own
ArgTuples(c) == {<<>>, <<c>>}

NoItem == [func |-> "none", args |-> <<>>, future |-> 0]
NoOutcome == [kind |-> "none", val |-> <<>>]

Terminal == {"done", "cancelled", "failed"}

VARIABLES
  task_queue,      \* self.task_queue: sequence of (coro_func, args, future)
  worker_running,  \* self.worker_running
  worker_task,     \* self.worker_task: 0 is None, else the id of a task
  wstate,          \* per worker task: none/scheduled/inunit/done/cancelled/failed
  wcancel,         \* per worker task: a cancellation was requested and not yet delivered
  wcur,            \* per worker task: the item whose unit of work it is awaiting
  wwaiters,        \* per worker task: the stop() calls awaiting it, in order
  ready,           \* the event loop's FIFO of handles
  fut,             \* per enqueue call (of a caller, of a unit of work): its future, [state, outcome]
  cpc,             \* per caller: idle/rejected/waiting/returned/reraised/cancelled
  ccall,           \* per caller: the (func, args) it enqueued
  cret,            \* per caller: what its enqueue call returned or re-raised
  ccancel,         \* per caller: cancelled after its future was already resolved
  spc,             \* per stop() call: idle/waiting/returned/raised
  starget,         \* per stop() call: the worker task it cancelled (0: none)
  putOrder,        \* history: futures in the order they were put on the queue
  startOrder,      \* history: futures in the order their unit of work was started
  lifecycle,       \* history: the last lifecycle call made, none/start/stop
  \* ---- CommandExecutor
  history,         \* self.history: sequence of [command, output, error]
  sudo_password,   \* self.sudo_password
  ui_pswd,         \* self.ui.pswd
  validated,       \* history: the passwords with which a probe has exited with code 0
  ecalls,          \* number of start() calls made so far
  epc,             \* where the start() call in progress is suspended
  start_command,   \* start(): the command proposed by the caller
  answered,        \* what the human sent back from the confirmation prompt
  confirmed,       \* start(): confirmed_command
  ecmd,            \* execute_command(): command, after the sudo rewriting
  output_lines,    \* _process_command_output(): output_lines
  ret,             \* what the last start() call returned or raised
  pstate,          \* the command's process: none/running/exited/closed
  returncode,      \* proc.returncode
  pout,            \* lines the process wrote to stdout that were not read yet
  perr,            \* what the process wrote to stderr
  pwrote,          \* all the lines the process wrote to stdout
  pwritten,        \* number of lines written by processes so far
  termsent,        \* SIGTERM was sent to the process
  stdin_writes,    \* what was written to proc.stdin
  mpc,             \* monitor task: none/sleep/ask/print/done/failed/cancelled
  probe,           \* the `sudo -S -v` process: none/running/ok/failed (its exit code)
  spawned,         \* command strings handed to create_subprocess_shell by this call
  asked,           \* the questions put to the human by start() and execute_command
  cancelled_at,    \* where the call was suspended when its caller cancelled it
  at_call,         \* history and sudo_password when start() was called
  left_running,    \* a process spawned by an earlier call is still running
  monitor_choice   \* the human's last answer to the monitor's question

queueVars == <<task_queue, worker_running, worker_task, wstate, wcancel, wcur,
               wwaiters, ready, fut, cpc, ccall, cret, ccancel, spc, starget,
               putOrder, startOrder, lifecycle>>

procVars == <<pstate, returncode, pout, perr, pwrote, pwritten, termsent, stdin_writes>>
credVars == <<sudo_password, ui_pswd, validated>>
callVars == <<ecalls, start_command, answered, confirmed, ecmd, spawned, asked, cancelled_at,
              at_call>>
execVars == <<history, credVars, callVars, epc, output_lines, ret, procVars, mpc, probe,
              left_running, monitor_choice>>

vars == <<queueVars, execVars>>

workerVars == <<task_queue, worker_running, worker_task, wstate, wcancel, wcur, wwaiters>>
callerVars == <<cpc, ccall, cret, ccancel>>
stopVars == <<spc, starget>>

\* ------------------------------------------------------------ helpers
InReady(h) == \E i \in 1..Len(ready) : ready[i] = h

RECURSIVE Handles(_, _)
Handles(kind, ids) ==
  IF ids = <<>> THEN <<>> ELSE <<<<kind, Head(ids)>>>> \o Handles(kind, Tail(ids))

\* asyncio.iscoroutinefunction(coro_func)
IsCoroutineFunction(f) == f # "plain"

\* inspect.signature(coro_func).bind(*args, **kwargs): every unit of work of
\* the model declares exactly one required parameter
Binds(f, args) == Len(args) = 1

\* C7 mutant: the arguments are never bound to the signature
AcceptsAnyCoroutine(f, args) == IsCoroutineFunction(f)

\* the checks enqueue() makes before it queues anything
EnqueueAccepts(f, args) == IsCoroutineFunction(f) /\ Binds(f, args)

\* await coro_func(*args, **kwargs) running to its end
Apply(f, args) ==
  IF f = "job" THEN [kind |-> "exception", val |-> <<f, args>>]
               ELSE [kind |-> "result", val |-> <<f, args>>]

\* a unit of work that receives CancelledError at its await
SwallowsCancel(f) == f = "shell"
Partial(f, args) == [kind |-> "result", val |-> <<"partial", f, args>>]

\* C5 mutant: no `except Exception` around the unit of work
CatchesNothing(kind) == FALSE

\* `except Exception` in _task_worker
Catches(kind) == kind = "exception"

\* C1 mutant: the queue hands out its newest item
QueueGetLast(q) == Len(q)

\* asyncio.Queue.get(): which position of the queue is handed out
QueueGetIndex(q) == 1

\* the queue without the item that was handed out
RemoveAt(q, i) == SubSeq(q, 1, i - 1) \o SubSeq(q, i + 1, Len(q))

\* C6 mutant: the worker resolves the future of another caller
FutureOfNeighbour(item) == (item.future % NCallers) + 1

\* the future the worker resolves: the one unpacked from the dequeued tuple
ResolveTarget(item) == item.future

\* C8 mutant: the worker leaves without resetting worker_running
FinallyLeavesRunning == TRUE

\* `finally: self.worker_running = False`
FinallyRunning == FALSE

\* Task.done()
TaskDone(w) == wstate[w] \in Terminal

\* C11 mutant: start() without its guard
AlwaysCreates == TRUE

\* the guard of start()
StartCreates == worker_task = 0 \/ TaskDone(worker_task)

\* C4 mutant: enqueue() never starts the worker
NeverStart(running) == FALSE

\* the guard of enqueue() around start()
NeedsStart(running) == ~running

\* the guard of stop()
StopCancels == worker_task # 0 /\ ~TaskDone(worker_task)

\* C9 mutant: stop() does not await the task it cancelled
AwaitReturnsAtOnce(w) == FALSE

\* `await self.worker_task` suspends stop() until the task has finished
AwaitSuspends(w) == ~TaskDone(w)

\* C10 mutant: no `except asyncio.CancelledError` in stop()
StopHandlesNothing(exc) == FALSE

\* `except asyncio.CancelledError` in stop()
StopHandles(exc) == exc = "CancelledError"

\* what `await self.worker_task` raises once the task has finished
AwaitRaises(ws) ==
  CASE ws = "cancelled" -> "CancelledError"
    [] ws = "failed" -> "InvalidStateError"
    [] OTHER -> "none"

\* callers are numbered in the order in which they call enqueue()
Arrived(c) == IF c = 1 THEN TRUE ELSE cpc[c - 1] # "idle"

\* stop() calls are numbered in the order in which they are made
StopArrived(s) == IF s = 1 THEN TRUE ELSE spc[s - 1] # "idle"

NewWorker == Cardinality({w \in Workers : wstate[w] # "none"}) + 1

\* a unit of work that calls enqueue() on the TaskManager that runs it and
\* awaits the result
Reenters(f) == f = "relay"

\* the unit of work it enqueues
InnerFunc == "fetch"

\* the future created by the enqueue() call made inside the unit of work of
\* caller c
Inner(c) == c + NCallers

Futures == 1..(2 * NCallers)

\* who is woken when the future k is resolved: the caller suspended on it
\* in enqueue(), or the worker task whose unit of work is suspended on it
Awaiting(k) ==
  IF k \in Callers
    THEN <<<<"c", k>>>>
    ELSE LET ws == {w \in Workers : /\ wstate[w] = "inunit"
                                    /\ Reenters(wcur[w].func)
                                    /\ Inner(wcur[w].future) = k}
         IN IF ws = {} THEN <<>> ELSE <<<<"w", CHOOSE w \in ws : TRUE>>>>

\* ------------------------------------------------- CommandExecutor: text
\* A Python str is the sequence of its symbols; a symbol is a character or
\* a group of characters that the code never takes apart ("Continue?").
\* None is the one-symbol sequence <<"None">>: no str contains that symbol.
None == <<"None">>

\* `if x:` for a str or None
Truthy(v) == v # None /\ v # <<>>

Whitespace == {" ", "\t", "\n"}

\* str.lstrip(), str.rstrip(), str.strip()
RECURSIVE LStrip(_)
LStrip(s) == IF s # <<>> /\ Head(s) \in Whitespace THEN LStrip(Tail(s)) ELSE s

RECURSIVE RStrip(_)
RStrip(s) ==
  IF s # <<>> /\ s[Len(s)] \in Whitespace THEN RStrip(SubSeq(s, 1, Len(s) - 1)) ELSE s

Strip(s) == RStrip(LStrip(s))

\* str.startswith(p), s[n:]
StartsWith(s, p) == Len(s) >= Len(p) /\ SubSeq(s, 1, Len(p)) = p

DropChars(s, n) == SubSeq(s, n + 1, Len(s))

\* "\n".join(lines)
RECURSIVE Join(_)
Join(lines) ==
  IF lines = <<>> THEN <<>>
  ELSE IF Len(lines) = 1 THEN lines[1]
  ELSE lines[1] \o <<"\n">> \o Join(Tail(lines))

\* str.splitlines()
RECURSIVE SplitLines(_)
SplitLines(s) ==
  IF s = <<>> THEN <<>>
  ELSE IF \E i \in 1..Len(s) : s[i] = "\n"
    THEN LET i == CHOOSE k \in 1..Len(s) : s[k] = "\n" /\ \A j \in 1..(k - 1) : s[j] # "\n"
         IN <<SubSeq(s, 1, i - 1)>> \o SplitLines(SubSeq(s, i + 1, Len(s)))
    ELSE <<s>>

\* the bytes of several lines, one after the other
RECURSIVE Concat(_)
Concat(lines) == IF lines = <<>> THEN <<>> ELSE Head(lines) \o Concat(Tail(lines))

\* re.sub(r'\x1b[^m]*m', '', data): an escape character, any characters
\* other than m, and the first m after them
RECURSIVE RemoveAnsi(_)
RemoveAnsi(s) ==
  IF s = <<>> THEN <<>>
  ELSE IF Head(s) = "ESC" /\ \E i \in 2..Len(s) : s[i] = "m"
    THEN LET i == CHOOSE k \in 2..Len(s) : s[k] = "m" /\ \A j \in 2..(k - 1) : s[j] # "m"
         IN RemoveAnsi(SubSeq(s, i + 1, Len(s)))
    ELSE <<Head(s)>> \o RemoveAnsi(Tail(s))

\* re.sub(r'[\x00-\x1F\x7F]', '', data)
ControlChars == {"\t", "\n", "ESC", "BEL"}

IsPrintable(a) == a \notin ControlChars

RemoveControl(s) == SelectSeq(s, IsPrintable)

\* _extract_meaningful_text
ExtractMeaningfulText(data) ==
  LET cleaned_data == RemoveControl(RemoveAnsi(data))
  IN IF Len(Strip(cleaned_data)) > 0 THEN Strip(cleaned_data) ELSE None

\* str.lower()
LowerSymbol(a) ==
  CASE a = "Continue?" -> "continue?"
    [] a = "Password:" -> "password:"
    [] a = "(Y/N)" -> "(y/n)"
    [] a = "YES" -> "yes"
    [] a = "Y" -> "y"
    [] OTHER -> a

Lower(s) == [i \in 1..Len(s) |-> LowerSymbol(s[i])]

Contains(s, a) == \E i \in 1..Len(s) : s[i] = a

\* _should_handle_prompt
PromptKeywords == {"[y/n]", "(yes/no)", "(y/n)", "password:", "continue?"}

\* C21 mutant: every line is taken for a prompt
HandlesEveryLine(decoded_line) == TRUE

ShouldHandlePrompt(decoded_line) ==
  \E kw \in PromptKeywords : Contains(Lower(decoded_line), kw)

\* the fixed texts of the executor
NoCommandSpecified == <<"No command specified.">>
NoOutputReceived == <<"No output received. Command may require user interaction or is piped.">>
OutputTruncated == <<"[Output truncated]">>
ErrorPrefix == <<"Error: ">>

\* C18 mutant: the latest lines are kept
TruncateKeepLatest(lines) ==
  IF Len(lines) > MAX_OUTPUT_LINES
    THEN SubSeq(lines, Len(lines) - MAX_OUTPUT_LINES + 1, Len(lines)) \o <<OutputTruncated>>
    ELSE lines

\* output_lines[:self.max_output_lines] + ["[Output truncated]"]
Truncate(lines) ==
  IF Len(lines) > MAX_OUTPUT_LINES
    THEN SubSeq(lines, 1, MAX_OUTPUT_LINES) \o <<OutputTruncated>>
    ELSE lines

\* command.startswith("sudo") and the rewriting of a privileged command
Sudo == <<"s", "u", "d", "o">>

RequireSudo(command) == StartsWith(command, Sudo)

SudoRewrite(password, command) ==
  <<"echo ">> \o password \o <<" | sudo -S ">> \o DropChars(command, 5)

\* the command of _validate_sudo_password
ProbeCommand(password) == <<"echo ">> \o password \o <<" | sudo -S -v">>

\* ----------------------------------------------- CommandExecutor: inputs
\* the commands proposed to start(): none, an empty one, one with leading
\* blanks
CmdId == <<"i", "d">>
CmdSudoId == Sudo \o <<" ">> \o CmdId
Proposals == {None, <<>>, <<" ", " ">> \o CmdId}

\* what the human may send back from the editable confirmation field:
\* nothing, the command shown, or a privileged command typed over it
HumanCommands == {<<>>, CmdId, CmdSudoId}

\* what the human may type at a password prompt
PasswordAnswers == {<<>>, <<"p">>}

\* what the human may answer to the monitor's question
MonitorAnswers == {<<"y">>, <<"YES", " ">>, <<"n">>}

\* 65536 bytes without a newline: more than the limit of proc.stdout, the
\* StreamReader of the subprocess
OverLimit == "a*65536"

\* readline() raises ValueError ("Separator is not found, and chunk exceed
\* the limit") on such a line
ExceedsLimit(line) == \E i \in 1..Len(line) : line[i] = OverLimit

\* the lines a process may write to stdout: coloured text with trailing
\* blanks, a blank line, a confirmation prompt, a password prompt, a
\* confirmation prompt about a password, a line longer than the limit
RawLines ==
  { <<"ESC", "[31", "m", "b", "ESC", "[0", "m", " ", "\n">>,
    <<"\t", "\n">>,
    <<"Continue?", " ", "(Y/N)", "\n">>,
    <<"Password:", "\n">>,
    <<"Save", " ", "password:", " ", "[y/n]", "\n">>,
    <<OverLimit, "\n">> }

\* what a process may have written to stderr when it exits
ErrTexts == {<<>>, <<" ", "e", "\n">>}

\* exit codes of a process that exits by itself; of one killed by SIGTERM
ExitCodes == {0, 1}
Sigterm == -15
\* proc.returncode is None
NoCode == 999

NoReturn == [kind |-> "none", confirmed |-> None, output |-> None, exc |-> "none"]
Returned(c, o) == [kind |-> "returned", confirmed |-> c, output |-> o, exc |-> "none"]
Raised(e) == [kind |-> "raised", confirmed |-> None, output |-> None, exc |-> e]

\* the points at which a start() call is suspended
ReadingLoop == {"read", "prompt_input"}
Suspended == {"confirm", "pw_input", "probe_spawn", "probe", "wrong_print", "spawn",
              "communicate", "cancel_wait"} \cup ReadingLoop

\* monitor_task.cancel()
MonitorCancel(m) == IF m \in {"sleep", "ask", "print"} THEN "cancelled" ELSE m

\* C30 mutant: every answer is taken for a yes
AlwaysAffirmative(user_choice) == TRUE

\* the answers for which the monitor terminates the process
Affirmative(user_choice) == Lower(Strip(user_choice)) \in {<<"y">>, <<"yes">>}

ExecInit ==
  /\ history = <<>>
  /\ sudo_password = None
  /\ ui_pswd = None
  /\ validated = {}
  /\ ecalls = 0
  /\ epc = "idle"
  /\ start_command = None
  /\ answered = None
  /\ confirmed = None
  /\ ecmd = None
  /\ output_lines = <<>>
  /\ ret = NoReturn
  /\ pstate = "none"
  /\ returncode = NoCode
  /\ pout = <<>>
  /\ perr = <<>>
  /\ pwrote = <<>>
  /\ pwritten = 0
  /\ termsent = FALSE
  /\ stdin_writes = <<>>
  /\ mpc = "none"
  /\ probe = "none"
  /\ spawned = <<>>
  /\ asked = {}
  /\ cancelled_at = "none"
  /\ at_call = [history |-> <<>>, sudo_password |-> None, ui_pswd |-> None]
  /\ left_running = FALSE
  /\ monitor_choice = None

\* ------------------------------------------------------------------ Init
Init ==
  /\ task_queue = <<>>
  /\ worker_running = FALSE
  /\ worker_task = 0
  /\ wstate = [w \in Workers |-> "none"]
  /\ wcancel = [w \in Workers |-> FALSE]
  /\ wcur = [w \in Workers |-> NoItem]
  /\ wwaiters = [w \in Workers |-> <<>>]
  /\ ready = <<>>
  /\ fut = [k \in Futures |-> [state |-> "none", outcome |-> NoOutcome]]
  /\ cpc = [c \in Callers |-> "idle"]
  /\ ccall = [c \in Callers |-> NoItem]
  /\ cret = [c \in Callers |-> NoOutcome]
  /\ ccancel = [c \in Callers |-> FALSE]
  /\ spc = [s \in Stoppers |-> "idle"]
  /\ starget = [s \in Stoppers |-> 0]
  /\ putOrder = <<>>
  /\ startOrder = <<>>
  /\ lifecycle = "none"
  /\ ExecInit

\* ---------------------------------------------------------------- start()
\* asyncio.create_task(self._task_worker()): a new task whose first step is
\* appended to the loop's ready queue; nothing happens while a worker task
\* is alive
StartCall ==
  IF StartCreates
    THEN /\ NewWorker <= MaxWorkers
         /\ worker_task' = NewWorker
         /\ wstate' = [wstate EXCEPT ![NewWorker] = "scheduled"]
         /\ ready' = Append(ready, <<"w", NewWorker>>)
         /\ lifecycle' = "start"
         /\ UNCHANGED <<task_queue, worker_running, wcancel, wcur, wwaiters, fut,
                        callerVars, stopVars, putOrder, startOrder, execVars>>
    ELSE /\ lifecycle' = "start"
         /\ UNCHANGED <<workerVars, ready, fut, callerVars, stopVars, putOrder,
                        startOrder, execVars>>

\* -------------------------------------------------------------- enqueue()
EnqueueReject(c, f, args) ==
  /\ cpc[c] = "idle"
  /\ Arrived(c)
  /\ ~EnqueueAccepts(f, args)
  /\ cpc' = [cpc EXCEPT ![c] = "rejected"]
  /\ UNCHANGED <<workerVars, ready, fut, ccall, cret, ccancel, stopVars,
                 putOrder, startOrder>>
  /\ UNCHANGED <<execVars, lifecycle>>

Enqueue(c, f, args) ==
  /\ cpc[c] = "idle"
  /\ Arrived(c)
  /\ EnqueueAccepts(f, args)
  /\ LET launch == NeedsStart(worker_running) /\ StartCreates
     IN /\ launch => NewWorker <= MaxWorkers
        /\ fut' = [fut EXCEPT ![c] = [state |-> "pending", outcome |-> NoOutcome]]
        /\ task_queue' = Append(task_queue, [func |-> f, args |-> args, future |-> c])
        /\ putOrder' = Append(putOrder, c)
        /\ IF launch
             THEN /\ worker_task' = NewWorker
                  /\ wstate' = [wstate EXCEPT ![NewWorker] = "scheduled"]
                  /\ ready' = Append(ready, <<"w", NewWorker>>)
             ELSE UNCHANGED <<worker_task, wstate, ready>>
        /\ lifecycle' = IF NeedsStart(worker_running) THEN "start" ELSE lifecycle
        /\ cpc' = [cpc EXCEPT ![c] = "waiting"]
        /\ ccall' = [ccall EXCEPT ![c] = [func |-> f, args |-> args, future |-> c]]
  /\ UNCHANGED <<worker_running, wcancel, wcur, wwaiters, cret, ccancel,
                 stopVars, startOrder>>
  /\ UNCHANGED execVars

\* ---------------------------------------------------------- _task_worker
\* The worker task w ends (returns, is cancelled, or dies of an exception):
\* the stop() calls awaiting it are woken in the order they started to wait.
Finish(w, how, running, f, rdy) ==
  /\ wstate' = [wstate EXCEPT ![w] = how]
  /\ wcancel' = [wcancel EXCEPT ![w] = FALSE]
  /\ wcur' = [wcur EXCEPT ![w] = NoItem]
  /\ wwaiters' = [wwaiters EXCEPT ![w] = <<>>]
  /\ worker_running' = running
  /\ fut' = f
  /\ ready' = rdy \o Handles("s", wwaiters[w])
  /\ UNCHANGED <<task_queue, worker_task, putOrder, startOrder>>

\* `while not self.task_queue.empty()`: leave through `finally` when the
\* queue is empty, else take the next item and suspend in its unit of work.
\* `await coro_func(...)` runs the unit up to its first suspension: a unit
\* that calls enqueue() on the same TaskManager creates a future, puts its
\* own task on the queue, finds worker_running true (the worker that runs it
\* has set it), so start() is not called, and suspends on that future.
Loop(w, running, f, rdy) ==
  IF task_queue = <<>>
    THEN Finish(w, "done", FinallyRunning, f, rdy)
    ELSE LET i == QueueGetIndex(task_queue)
             item == task_queue[i]
             rest == RemoveAt(task_queue, i)
             inner == Inner(item.future)
         IN /\ wstate' = [wstate EXCEPT ![w] = "inunit"]
            /\ wcancel' = [wcancel EXCEPT ![w] = FALSE]
            /\ wcur' = [wcur EXCEPT ![w] = item]
            /\ worker_running' = running
            /\ ready' = rdy
            /\ startOrder' = Append(startOrder, item.future)
            /\ IF Reenters(item.func)
                 THEN /\ task_queue' = Append(rest, [func |-> InnerFunc, args |-> item.args,
                                                     future |-> inner])
                      /\ fut' = [f EXCEPT ![inner] = [state |-> "pending",
                                                      outcome |-> NoOutcome]]
                      /\ putOrder' = Append(putOrder, inner)
                 ELSE /\ task_queue' = rest
                      /\ fut' = f
                      /\ UNCHANGED putOrder
            /\ UNCHANGED <<worker_task, wwaiters>>

\* future.set_result / future.set_exception with the outcome of the unit of
\* work.  An exception the worker does not catch ends the task; a future
\* that is no longer pending makes set_result raise InvalidStateError, which
\* `except Exception` catches, and set_exception raises it again.
Resolve(w, outcome, rdy) ==
  LET c == ResolveTarget(wcur[w])
  IN IF outcome.kind = "exception" /\ ~Catches(outcome.kind)
       THEN Finish(w, "failed", FinallyRunning, fut, rdy)
       ELSE IF fut[c].state = "pending"
              THEN Loop(w, worker_running,
                        [fut EXCEPT ![c] = [state |-> outcome.kind, outcome |-> outcome]],
                        rdy \o Awaiting(c))
              ELSE Finish(w, "failed", FinallyRunning, fut, rdy)

\* One step of the worker task w: from its creation or from the await of a
\* unit of work up to the next await or to its end.
WorkerStep(w) ==
  /\ ready # <<>>
  /\ Head(ready) = <<"w", w>>
  /\ LET rdy == Tail(ready)
         item == wcur[w]
     IN CASE wstate[w] = "scheduled" /\ wcancel[w] ->
               \* cancelled before its first step: the body never runs
               Finish(w, "cancelled", worker_running, fut, rdy)
          [] wstate[w] = "scheduled" /\ ~wcancel[w] ->
               IF worker_running
                 THEN Finish(w, "done", worker_running, fut, rdy)
                 ELSE Loop(w, TRUE, fut, rdy)
          [] wstate[w] = "inunit" /\ wcancel[w] ->
               \* CancelledError is thrown into the unit of work at its await
               \* (the future a unit is suspended on is cancelled with it)
               IF SwallowsCancel(item.func)
                 THEN Resolve(w, Partial(item.func, item.args), rdy)
                 ELSE Finish(w, "cancelled", FinallyRunning,
                             IF Reenters(item.func) /\ fut[Inner(item.future)].state = "pending"
                               THEN [fut EXCEPT ![Inner(item.future)] =
                                       [state |-> "cancelled", outcome |-> NoOutcome]]
                               ELSE fut,
                             rdy)
          [] wstate[w] = "inunit" /\ ~wcancel[w] ->
               Resolve(w, Apply(item.func, item.args), rdy)
  /\ UNCHANGED <<callerVars, stopVars>>
  /\ UNCHANGED <<execVars, lifecycle>>

\* The I/O a unit of work awaits completes: the worker's wake-up is queued.
\* (A unit suspended on the future of its own enqueue() call awaits no I/O:
\* it is woken when that future is resolved.)
UnitIOComplete(w) ==
  /\ wstate[w] = "inunit"
  /\ ~Reenters(wcur[w].func)
  /\ ~InReady(<<"w", w>>)
  /\ ready' = Append(ready, <<"w", w>>)
  /\ UNCHANGED <<workerVars, fut, callerVars, stopVars, putOrder, startOrder>>
  /\ UNCHANGED <<execVars, lifecycle>>

\* ------------------------------------------------- `return await future`
CallerResume(c) ==
  /\ ready # <<>>
  /\ Head(ready) = <<"c", c>>
  /\ ready' = Tail(ready)
  /\ IF ccancel[c] \/ fut[c].state = "cancelled"
       THEN cpc' = [cpc EXCEPT ![c] = "cancelled"] /\ UNCHANGED cret
       ELSE /\ cpc' = [cpc EXCEPT ![c] =
                         IF fut[c].state = "result" THEN "returned" ELSE "reraised"]
            /\ cret' = [cret EXCEPT ![c] = fut[c].outcome]
  /\ UNCHANGED <<workerVars, fut, ccall, ccancel, stopVars, putOrder, startOrder>>
  /\ UNCHANGED <<execVars, lifecycle>>

\* Task.cancel() on a task suspended in enqueue(): the future it awaits is
\* cancelled; if that future is already resolved the CancelledError is
\* delivered at the task's next step instead.
CancelCaller(c) ==
  /\ cpc[c] = "waiting"
  /\ ~ccancel[c]
  /\ fut[c].state # "cancelled"
  /\ IF fut[c].state = "pending"
       THEN /\ fut' = [fut EXCEPT ![c] = [state |-> "cancelled", outcome |-> NoOutcome]]
            /\ ready' = Append(ready, <<"c", c>>)
            /\ UNCHANGED ccancel
       ELSE /\ ccancel' = [ccancel EXCEPT ![c] = TRUE]
            /\ UNCHANGED <<fut, ready>>
  /\ UNCHANGED <<workerVars, cpc, ccall, cret, stopVars, putOrder, startOrder>>
  /\ UNCHANGED <<execVars, lifecycle>>

\* ----------------------------------------------------------------- stop()
\* self.worker_task.cancel() followed by `await self.worker_task`; a task
\* that is suspended on a pending future is woken by the cancellation
StopCall(s) ==
  /\ spc[s] = "idle"
  /\ StopArrived(s)
  /\ lifecycle' = "stop"
  /\ IF StopCancels
       THEN LET w == worker_task
            IN /\ wcancel' = [wcancel EXCEPT ![w] = TRUE]
               /\ ready' = IF InReady(<<"w", w>>) THEN ready
                                                  ELSE Append(ready, <<"w", w>>)
               /\ starget' = [starget EXCEPT ![s] = w]
               /\ IF AwaitSuspends(w)
                    THEN /\ wwaiters' = [wwaiters EXCEPT ![w] = Append(@, s)]
                         /\ spc' = [spc EXCEPT ![s] = "waiting"]
                    ELSE /\ spc' = [spc EXCEPT ![s] = "returned"]
                         /\ UNCHANGED wwaiters
       ELSE /\ spc' = [spc EXCEPT ![s] = "returned"]
            /\ UNCHANGED <<wcancel, ready, wwaiters, starget>>
  /\ UNCHANGED <<task_queue, worker_running, worker_task, wstate, wcur, fut,
                 callerVars, putOrder, startOrder>>
  /\ UNCHANGED execVars

StopResume(s) ==
  /\ ready # <<>>
  /\ Head(ready) = <<"s", s>>
  /\ ready' = Tail(ready)
  /\ LET exc == AwaitRaises(wstate[starget[s]])
     IN spc' = [spc EXCEPT ![s] =
                  IF exc = "none" \/ StopHandles(exc) THEN "returned" ELSE "raised"]
  /\ UNCHANGED <<workerVars, fut, callerVars, starget, putOrder, startOrder>>
  /\ UNCHANGED <<execVars, lifecycle>>

\* ------------------------------------------------------- specifications
Next ==
  \/ StartCall
  \/ \E c \in Callers : \E f \in Funcs, args \in ArgTuples(c) : EnqueueReject(c, f, args)
  \/ \E c \in Callers : \E f \in Funcs, args \in ArgTuples(c) : Enqueue(c, f, args)
  \/ \E w \in Workers : WorkerStep(w)
  \/ \E w \in Workers : UnitIOComplete(w)
  \/ \E c \in Callers : CallerResume(c)
  \/ \E c \in Callers : CancelCaller(c)
  \/ \E s \in Stoppers : StopCall(s)
  \/ \E s \in Stoppers : StopResume(s)

Spec == Init /\ [][Next]_vars

\* enqueue, start and stop calls in any interleaving; no caller is cancelled
NextCalls ==
  \/ StartCall
  \/ \E c \in Callers : \E f \in Funcs, args \in ArgTuples(c) : EnqueueReject(c, f, args)
  \/ \E c \in Callers : \E f \in Funcs, args \in ArgTuples(c) : Enqueue(c, f, args)
  \/ \E w \in Workers : WorkerStep(w)
  \/ \E w \in Workers : UnitIOComplete(w)
  \/ \E c \in Callers : CallerResume(c)
  \/ \E s \in Stoppers : StopCall(s)
  \/ \E s \in Stoppers : StopResume(s)

SpecCalls == Init /\ [][NextCalls]_vars

\* enqueue and start calls only.  The event loop runs every handle of its
\* ready queue, and every unit of work terminates: the I/O it awaits
\* completes.
NextLive ==
  \/ StartCall
  \/ \E c \in Callers : \E f \in Funcs, args \in ArgTuples(c) : EnqueueReject(c, f, args)
  \/ \E c \in Callers : \E f \in Funcs, args \in ArgTuples(c) : Enqueue(c, f, args)
  \/ \E w \in Workers : WorkerStep(w)
  \/ \E w \in Workers : UnitIOComplete(w)
  \/ \E c \in Callers : CallerResume(c)

\* the same calls, with units of work that call enqueue() themselves
NextNested ==
  \/ StartCall
  \/ \E c \in Callers : \E f \in UnitFuncs, args \in ArgTuples(c) : EnqueueReject(c, f, args)
  \/ \E c \in Callers : \E f \in UnitFuncs, args \in ArgTuples(c) : Enqueue(c, f, args)
  \/ \E w \in Workers : WorkerStep(w)
  \/ \E w \in Workers : UnitIOComplete(w)
  \/ \E c \in Callers : CallerResume(c)

LiveNested ==
  /\ Init
  /\ [][NextNested]_vars
  /\ \A w \in Workers : WF_vars(WorkerStep(w)) /\ WF_vars(UnitIOComplete(w))
  /\ \A c \in Callers : WF_vars(CallerResume(c))

LiveSpec ==
  /\ Init
  /\ [][NextLive]_vars
  /\ \A w \in Workers : WF_vars(WorkerStep(w)) /\ WF_vars(UnitIOComplete(w))
  /\ \A c \in Callers : WF_vars(CallerResume(c))

TypeOK ==
  /\ worker_running \in BOOLEAN
  /\ worker_task \in 0..MaxWorkers
  /\ \A w \in Workers : wstate[w] \in {"none", "scheduled", "inunit"} \cup Terminal
  /\ \A c \in Callers : cpc[c] \in {"idle", "rejected", "waiting", "returned", "reraised", "cancelled"}
  /\ \A s \in Stoppers : spc[s] \in {"idle", "waiting", "returned", "raised"}

\* ------------------------------------------------------------ properties
Range(q) == {q[i] : i \in 1..Len(q)}

\* the handle h is at the head of the ready queue and is run by this step
\* (calls from outside only ever append to the ready queue)
Ran(h) ==
  /\ ready # <<>>
  /\ Head(ready) = h
  /\ \/ Len(ready') < Len(ready)
     \/ SubSeq(ready', 1, Len(ready)) # ready

\* the unit of work of caller c is being awaited by a worker task
InFlight(c) == \E w \in Workers : wstate[w] = "inunit" /\ wcur[w].future = c

Resolved(c) == fut[c].state \in {"result", "exception", "cancelled"}

\* C1: the worker starts the units of work in exactly the order in which
\* their PendingTasks were put on the queue: the sequence of started tasks is
\* always a prefix of the sequence of queued tasks.
C1_FifoOrder ==
  /\ Len(startOrder) <= Len(putOrder)
  /\ \A i \in 1..Len(startOrder) : startOrder[i] = putOrder[i]

\* three tasks were queued by three callers and two of them have been
\* started while the third still waits in the queue
C1_Witness ==
  /\ Len(putOrder) = 3
  /\ Len(startOrder) = 2
  /\ Len(task_queue) = 1

\* C2: at most one unit of work is executing, at most one worker loop is
\* active, and no unit of work begins before the completion handle of every
\* unit started before it has been resolved.
C2_MutualExclusion ==
  /\ Cardinality({w \in Workers : wstate[w] = "inunit"}) <= 1
  /\ Cardinality({w \in Workers : wstate[w] \in {"scheduled", "inunit"}}) <= 1
  /\ \A i \in 1..(Len(startOrder) - 1) : Resolved(startOrder[i])

\* C3: every PendingTask is executed at most once, and once it has been
\* dequeued and its unit of work is no longer running its completion handle
\* is resolved (with the result or the failure), never left pending.
C3_ResolvedExactlyOnce ==
  /\ \A i, j \in 1..Len(startOrder) : startOrder[i] = startOrder[j] => i = j
  /\ \A c \in Callers : (c \in Range(startOrder) /\ ~InFlight(c)) => Resolved(c)

OwnOutcome(c) == Apply(ccall[c].func, ccall[c].args)

\* C4: with enqueue calls only and units of work that terminate, every
\* caller suspended in enqueue eventually gets its result or its failure
\* (so every completion handle is eventually resolved).
C4_EnqueueLiveness ==
  \A c \in Callers : (cpc[c] = "waiting") ~> (cpc[c] \in {"returned", "reraised"})

\* every caller enqueued a task and every enqueue call has come back
C4_Witness ==
  /\ Len(putOrder) = NCallers
  /\ \A c \in Callers : cpc[c] \in {"returned", "reraised"}

\* C5: a unit of work that raises has its exception set on its own completion
\* handle and on no other, the worker goes on with the next queued task
\* instead of ending, only callers whose own unit raised see a failure, and
\* once a failure has happened every waiting caller (queued behind it or
\* arriving later) is still served.
C5_OnlyOwnFailure ==
  \A c \in Callers :
    /\ cpc[c] = "reraised" => (OwnOutcome(c).kind = "exception" /\ cret[c] = OwnOutcome(c))
    /\ cpc[c] = "returned" => OwnOutcome(c).kind = "result"

C5_FailureStep ==
  \A w \in Workers :
    (/\ Ran(<<"w", w>>)
     /\ wstate[w] = "inunit"
     /\ Apply(wcur[w].func, wcur[w].args).kind = "exception")
    => LET k == wcur[w].future
       IN /\ fut'[k] = [state |-> "exception",
                         outcome |-> Apply(wcur[w].func, wcur[w].args)]
          /\ \A d \in Callers \ {k} : fut'[d] = fut[d]
          /\ wstate'[w] \in {"inunit", "done"}
          /\ task_queue # <<>> =>
                (wstate'[w] = "inunit" /\ wcur'[w] = Head(task_queue))

C5_FailureIsolation ==
  /\ []C5_OnlyOwnFailure
  /\ [][C5_FailureStep]_vars
  /\ \A k, c \in Callers :
        (fut[k].state = "exception" /\ cpc[c] = "waiting")
          ~> (cpc[c] \in {"returned", "reraised"})

\* A resolves, B's caller observes the failure, C still resolves
C5_Witness ==
  /\ cpc[1] = "returned"
  /\ cpc[2] = "reraised"
  /\ cpc[3] = "returned"

\* C6: an enqueue call returns (or re-raises) only after the worker has
\* started and finished that call's own unit of work, and what it returns is
\* the outcome of that unit applied to that call's own arguments.
C6_ResultRouting ==
  \A c \in Callers :
    cpc[c] \in {"returned", "reraised"} =>
      /\ c \in Range(startOrder)
      /\ ~InFlight(c)
      /\ \/ cret[c] = OwnOutcome(c)
         \/ SwallowsCancel(ccall[c].func)
              /\ cret[c] = Partial(ccall[c].func, ccall[c].args)
      /\ (cpc[c] = "reraised") <=> (cret[c].kind = "exception")

\* two callers were served and each holds a different value
C6_Witness ==
  /\ cpc[1] = "returned"
  /\ cpc[2] = "returned"
  /\ cret[1] # cret[2]
  /\ cpc[3] = "waiting"

\* C7: a call whose unit of work is not an async callable, or whose
\* arguments do not bind, raises and leaves the queue, worker_running,
\* worker_task, the worker tasks and every future as they were: only valid
\* calls are queued, and only valid units of work are ever executed.
C7_OnlyValidQueued ==
  /\ \A i \in 1..Len(task_queue) :
        /\ IsCoroutineFunction(task_queue[i].func)
        /\ Binds(task_queue[i].func, task_queue[i].args)
  /\ \A w \in Workers :
        wstate[w] = "inunit" =>
          /\ IsCoroutineFunction(wcur[w].func)
          /\ Binds(wcur[w].func, wcur[w].args)
  /\ \A c \in Callers :
        cpc[c] = "rejected" => (fut[c].state = "none" /\ c \notin Range(putOrder))

C7_RejectStep ==
  \A c \in Callers :
    /\ (cpc[c] = "idle" /\ cpc'[c] = "rejected") =>
          UNCHANGED <<task_queue, worker_running, worker_task, wstate, wcur,
                      ready, fut, putOrder, startOrder>>
    /\ (cpc[c] = "idle" /\ cpc'[c] # "idle") => cpc'[c] \in {"rejected", "waiting"}
    /\ (cpc[c] = "idle" /\ cpc'[c] = "waiting") =>
          /\ IsCoroutineFunction(ccall'[c].func)
          /\ Binds(ccall'[c].func, ccall'[c].args)

C7_FailFast == []C7_OnlyValidQueued /\ [][C7_RejectStep]_vars

\* a call was rejected while a task was queued and the worker was running
C7_Witness ==
  /\ cpc[3] = "rejected"
  /\ Len(task_queue) = 1
  /\ worker_running

\* C8: a worker step that finds the queue empty ends the worker task with
\* worker_running false; an enqueue call made when no worker task is alive
\* creates a new one; and every queued task is eventually started.
C8_IdleExitStep ==
  \A w \in Workers :
    (Ran(<<"w", w>>) /\ task_queue = <<>>) =>
      (wstate'[w] = "done" /\ ~worker_running')

C8_RelaunchStep ==
  \A c \in Callers :
    (/\ cpc[c] = "idle"
     /\ cpc'[c] = "waiting"
     /\ IF worker_task = 0 THEN TRUE ELSE TaskDone(worker_task))
    => /\ worker_task' # worker_task
       /\ wstate'[worker_task'] = "scheduled"
       /\ ready' = Append(ready, <<"w", worker_task'>>)

C8_IdleShutdownRelaunch ==
  /\ [][C8_IdleExitStep /\ C8_RelaunchStep]_vars
  /\ \A c \in Callers : (cpc[c] = "waiting") ~> (c \in Range(startOrder))

\* the first worker exited on an empty queue after serving a task, and a
\* second one, launched by a later enqueue, is executing that call's task
C8_Witness ==
  /\ wstate[1] = "done"
  /\ wstate[2] = "inunit"
  /\ cpc[1] = "returned"
  /\ startOrder = <<1, 2>>

\* C9: once a stop() call has returned, the worker task it cancelled never
\* dequeues again: whatever is dequeued afterwards is dequeued by a worker
\* task that start() created anew.
C9_DequeueStep ==
  \A w \in Workers :
    (Ran(<<"w", w>>) /\ Len(startOrder') > Len(startOrder)) =>
      \A s \in Stoppers : spc[s] \in {"returned", "raised"} => starget[s] # w

C9_NoDequeueAfterStop == [][C9_DequeueStep]_vars

\* stop() returned after cancelling worker task 1 in the middle of a unit
\* of work, and a relaunched worker task is executing the next task
C9_Witness ==
  /\ spc[1] = "returned"
  /\ starget[1] = 1
  /\ wstate[1] = "cancelled"
  /\ wstate[2] = "inunit"
  /\ Len(startOrder) = 2

\* C10: a stop() call made while a worker task is alive requests its
\* cancellation and waits for it; it never raises, and when it returns the
\* task it cancelled has finished and worker_running is false.
C10_StopStep ==
  \A s \in Stoppers :
    /\ (spc[s] = "idle" /\ spc'[s] # "idle" /\ StopCancels) =>
          (starget'[s] = worker_task /\ wcancel'[worker_task])
    /\ (spc[s] # "returned" /\ spc'[s] = "returned" /\ starget'[s] # 0) =>
          (TaskDone(starget[s])' /\ ~worker_running')

C10_StopIsClean ==
  /\ [](\A s \in Stoppers : spc[s] # "raised")
  /\ [][C10_StopStep]_vars

\* stop() returned after the worker task was cancelled inside a unit of
\* work, whose completion handle is left pending
C10_Witness ==
  /\ spc[1] = "returned"
  /\ starget[1] # 0
  /\ \E c \in Callers :
        c \in Range(startOrder) /\ ~InFlight(c) /\ fut[c].state = "pending"

\* a worker task that has been created and is not done
Alive(w) == wstate[w] \in {"scheduled", "inunit"}

\* this step is the return of the stop() call s
StopReturns(s) == spc[s] # "returned" /\ spc'[s] = "returned"

\* C11: start() and stop() are idempotent.  At most one worker task is alive;
\* while one is alive no step (no start() call in particular) creates a
\* worker or replaces worker_task; right after a worker was created a
\* second start() would create none; a stop() call that finds no live worker
\* changes nothing but its caller's position; no step of stop() itself
\* changes the queue, worker_running or worker_task; and when stop() returns,
\* the worker it cancelled is done, so that stop() called again at once
\* finds no live worker unless somebody else has started a new one.
C11_OneAlive == Cardinality({w \in Workers : Alive(w)}) <= 1

C11_StartStep ==
  /\ ~StartCreates =>
       /\ worker_task' = worker_task
       /\ \A w \in Workers : wstate[w] = "none" => wstate'[w] = "none"
  /\ worker_task' # worker_task => ~StartCreates'

C11_StopStep ==
  \A s \in Stoppers :
    /\ spc'[s] # spc[s] => UNCHANGED <<task_queue, worker_running, worker_task>>
    /\ (spc[s] = "idle" /\ spc'[s] # "idle" /\ ~StopCancels) =>
         /\ spc'[s] = "returned"
         /\ UNCHANGED <<workerVars, ready, fut, callerVars, starget, putOrder, startOrder>>
    /\ StopReturns(s) => (StopCancels' => worker_task' # starget'[s])

C11_Idempotent == [](C11_OneAlive) /\ [][C11_StartStep /\ C11_StopStep]_vars

\* stop() was called twice in a row: the first call cancelled a worker and
\* returned, the second found nothing to cancel; a second worker was created
\* by a start() after the first was done
C11_Witness ==
  /\ spc[1] = "returned" /\ starget[1] # 0
  /\ spc[2] = "returned" /\ starget[2] = 0
  /\ wstate[1] = "cancelled"
  /\ worker_task = 2

\* ================================================== CommandExecutor
\* One executor and a user interface.  The human, the spawned processes, the
\* clock of the monitor and the caller of start() are the environment: each
\* of their moves is an action, and each action of the executor is the
\* stretch of code between two awaits.

\* C14 mutant: start() confirms whatever it is given
AnyCommandGiven(cmd) == TRUE

\* `if command:` in start()
CommandGiven(cmd) == Truthy(cmd)

\* C12 mutant: the text shown to the human is kept, whatever they typed
ConfirmKeepsProposal(shown, typed) == IF Truthy(typed) THEN shown ELSE None

\* confirm_execute_command: `return command if command else None`, command
\* being what the human sent back
ConfirmResult(shown, typed) == IF Truthy(typed) THEN typed ELSE None

\* C13 mutant: start() executes whatever the confirmation gave
AlwaysProceeds(confirmed_command) == TRUE

\* `if confirmed_command:` in start()
Proceeds(confirmed_command) == Truthy(confirmed_command)

\* ------------------------------------------------------------- start()
\* start(command) up to its first await.  The locals of the previous call
\* and its process object are gone.
StartBody(cmd) ==
  /\ ecalls' = ecalls + 1
  /\ left_running' = (left_running \/ pstate = "running" \/ probe = "running")
  /\ monitor_choice' = None
  /\ start_command' = cmd
  /\ at_call' = [history |-> history, sudo_password |-> sudo_password, ui_pswd |-> ui_pswd]
  /\ answered' = None
  /\ confirmed' = None
  /\ ecmd' = None
  /\ spawned' = <<>>
  /\ cancelled_at' = "none"
  /\ output_lines' = <<>>
  /\ pstate' = "none"
  /\ returncode' = NoCode
  /\ pout' = <<>>
  /\ perr' = <<>>
  /\ pwrote' = <<>>
  /\ termsent' = FALSE
  /\ stdin_writes' = <<>>
  /\ mpc' = "none"
  /\ probe' = "none"
  /\ IF CommandGiven(cmd)
       THEN \* confirm_execute_command shows command.lstrip() to the human
            /\ asked' = {"confirm"}
            /\ epc' = "confirm"
            /\ ret' = NoReturn
       ELSE /\ asked' = {}
            /\ epc' = "returned"
            /\ ret' = Returned(None, NoCommandSpecified)
  /\ UNCHANGED <<history, credVars, pwritten, queueVars>>

\* the orchestration calls start() when no call is in progress
ExecStart(cmd) ==
  /\ epc \in {"idle", "returned", "raised"}
  /\ ecalls < MaxCalls
  /\ StartBody(cmd)

\* the orchestration calls start() once more after a call that raised and
\* left its process running
ExecStartAfterFailure(cmd) ==
  /\ epc = "raised"
  /\ pstate = "running"
  /\ ecalls = MaxCalls
  /\ StartBody(cmd)

\* the process left running by an earlier call exits
LeftoverExit ==
  /\ left_running
  /\ left_running' = FALSE
  /\ UNCHANGED <<history, credVars, callVars, epc, output_lines, ret, procVars, mpc, probe,
                 monitor_choice, queueVars>>

\* the end of execute_command(cmd) once the credential is settled: a
\* privileged command is rewritten and the subprocess is requested
RequestSpawn(cmd, password) ==
  LET rewritten == IF RequireSudo(cmd) THEN SudoRewrite(password, cmd) ELSE cmd
  IN /\ ecmd' = rewritten
     /\ spawned' = Append(spawned, rewritten)
     /\ epc' = "spawn"
     /\ ret' = ret

\* the human answers the confirmation prompt; a non-empty answer goes to
\* execute_command, which runs up to its first await
ConfirmAnswer(typed) ==
  /\ epc = "confirm"
  /\ answered' = typed
  /\ LET confirmed_command == ConfirmResult(LStrip(start_command), typed)
     IN /\ confirmed' = confirmed_command
        /\ IF ~Proceeds(confirmed_command)
             THEN /\ epc' = "returned"
                  /\ ret' = Returned(None, None)
                  /\ UNCHANGED <<ecmd, spawned, asked, sudo_password>>
             ELSE IF ~Truthy(confirmed_command)
               THEN \* execute_command: `if not command`
                    /\ epc' = "returned"
                    /\ ret' = Returned(confirmed_command, <<"No command provided.">>)
                    /\ UNCHANGED <<ecmd, spawned, asked, sudo_password>>
               ELSE IF RequireSudo(confirmed_command) /\ ~Truthy(sudo_password)
                 THEN IF Truthy(ui_pswd)
                        THEN \* _get_sudo_password takes the credential of the ui
                             /\ sudo_password' = ui_pswd
                             /\ RequestSpawn(confirmed_command, ui_pswd)
                             /\ UNCHANGED asked
                        ELSE /\ asked' = asked \cup {"sudo_password"}
                             /\ epc' = "pw_input"
                             /\ UNCHANGED <<ecmd, spawned, sudo_password, ret>>
                 ELSE /\ RequestSpawn(confirmed_command, sudo_password)
                      /\ UNCHANGED <<asked, sudo_password>>
  /\ UNCHANGED <<history, ui_pswd, validated, ecalls, start_command, cancelled_at, at_call,
                 output_lines, procVars, mpc, probe, left_running, monitor_choice, queueVars>>

\* ------------------------------------------------ _get_sudo_password
\* `if self.sudo_password:` in _get_sudo_password and `if not
\* self.sudo_password: return None` in execute_command
CredentialGiven(password) == Truthy(password)

\* the human answers "Enter sudo password: ": the answer is stored in
\* self.sudo_password; a non-empty one is handed to `sudo -S -v`, an empty
\* one leaves execute_command return None
SudoPasswordAnswer(password) ==
  /\ epc = "pw_input"
  /\ sudo_password' = password
  /\ IF CredentialGiven(password)
       THEN /\ spawned' = Append(spawned, ProbeCommand(password))
            /\ epc' = "probe_spawn"
            /\ ret' = ret
       ELSE /\ epc' = "returned"
            /\ ret' = Returned(confirmed, None)
            /\ UNCHANGED spawned
  /\ UNCHANGED <<history, ui_pswd, validated, ecalls, start_command, answered, confirmed,
                 ecmd, asked, cancelled_at, at_call, output_lines, procVars, mpc, probe,
                 left_running, monitor_choice, queueVars>>

\* _validate_sudo_password: create_subprocess_shell has returned the probe
\* process; communicate() is awaited
ProbeSpawnDone ==
  /\ epc = "probe_spawn"
  /\ probe' = "running"
  /\ epc' = "probe"
  /\ UNCHANGED <<history, credVars, callVars, output_lines, ret, procVars, mpc, left_running, monitor_choice, queueVars>>

\* create_subprocess_shell raises for the probe; nothing catches it, and
\* self.sudo_password keeps the answer of the human
ProbeSpawnFails ==
  /\ epc = "probe_spawn"
  /\ epc' = "raised"
  /\ ret' = Raised("OSError")
  /\ UNCHANGED <<history, credVars, callVars, output_lines, procVars, mpc, probe, left_running, monitor_choice, queueVars>>

\* C24 mutant: the exit code of the probe is not looked at
ProbeAlwaysValid(code) == TRUE

\* _validate_sudo_password: `proc.returncode == 0`
ProbeValid(code) == code = 0

\* _validate_sudo_password: the probe has exited
ProbeExit(code) ==
  /\ epc = "probe"
  /\ probe = "running"
  /\ probe' = IF code = 0 THEN "ok" ELSE "failed"
  /\ validated' = IF code = 0 THEN validated \cup {sudo_password} ELSE validated
  /\ IF ProbeValid(code)
       THEN /\ ui_pswd' = sudo_password
            /\ RequestSpawn(confirmed, sudo_password)
            /\ UNCHANGED sudo_password
       ELSE /\ ui_pswd' = None
            /\ sudo_password' = None
            /\ epc' = "wrong_print"
            /\ UNCHANGED <<ecmd, spawned, ret>>
  /\ UNCHANGED <<history, ecalls, start_command, answered, confirmed, asked, cancelled_at,
                 at_call, output_lines, procVars, mpc, left_running, monitor_choice, queueVars>>

\* "Wrong password" has been printed; execute_command returns None
WrongPasswordPrinted ==
  /\ epc = "wrong_print"
  /\ epc' = "returned"
  /\ ret' = Returned(confirmed, None)
  /\ UNCHANGED <<history, credVars, callVars, output_lines, procVars, mpc, probe, left_running, monitor_choice, queueVars>>

\* -------------------------------------------------- _start_subprocess
\* create_subprocess_shell has returned a process; _process_command_output
\* creates the monitor task and awaits the first line
SpawnDone ==
  /\ epc = "spawn"
  /\ pstate' = "running"
  /\ mpc' = "sleep"
  /\ epc' = "read"
  /\ UNCHANGED <<history, credVars, callVars, output_lines, ret, returncode, pout, perr,
                 pwrote, pwritten, termsent, stdin_writes, probe, left_running, monitor_choice, queueVars>>

\* create_subprocess_shell raises (no process could be created); nothing
\* in execute_command or start catches it
SpawnFails ==
  /\ epc = "spawn"
  /\ epc' = "raised"
  /\ ret' = Raised("OSError")
  /\ UNCHANGED <<history, credVars, callVars, output_lines, procVars, mpc, probe, left_running, monitor_choice, queueVars>>

\* ------------------------------------------------------- the process
\* The process writes a line to stdout; asyncio puts it in the buffer of
\* proc.stdout.
ProcWrite(line) ==
  /\ pstate = "running"
  /\ pwritten < MaxLines
  /\ pout' = Append(pout, line)
  /\ pwrote' = Append(pwrote, line)
  /\ pwritten' = pwritten + 1
  /\ UNCHANGED <<history, credVars, callVars, epc, output_lines, ret, pstate, returncode,
                 perr, termsent, stdin_writes, mpc, probe, left_running, monitor_choice, queueVars>>

\* The process has exited, by itself or killed by a SIGTERM that was sent
\* to it: its return code is known and the end of its stdout is in the
\* buffer, behind the lines not read yet.
ProcExit(code, err) ==
  /\ pstate = "running"
  /\ code = Sigterm => termsent
  /\ pstate' = "exited"
  /\ returncode' = code
  /\ perr' = err
  /\ UNCHANGED <<history, credVars, callVars, epc, output_lines, ret, pout, pwrote,
                 pwritten, termsent, stdin_writes, mpc, probe, left_running, monitor_choice, queueVars>>

\* asyncio closes the transport of a process that has exited: from now on
\* terminate() raises ProcessLookupError and drain() ConnectionResetError.
\* A reader suspended in readline() is woken by the end of the stream
\* before the loop gets to closing the transport.
TransportClosed ==
  /\ pstate = "exited"
  /\ epc # "read"
  /\ pstate' = "closed"
  /\ UNCHANGED <<history, credVars, callVars, epc, output_lines, ret, returncode, pout,
                 perr, pwrote, pwritten, termsent, stdin_writes, mpc, probe, left_running, monitor_choice, queueVars>>

\* ------------------------------------------- _process_command_output
\* C17 mutant: an empty accumulator is left empty
KeepEmpty(lines) == lines

\* `if not output_lines:` puts the sentinel in an empty accumulator, after
\* the reading loop and again in _finalize_command_output
OrSentinel(lines) == IF lines = <<>> THEN <<NoOutputReceived>> ELSE lines

\* C29 mutant: the line read replaces what was accumulated
AccumulateLatest(lines, extracted_text) ==
  IF extracted_text # None THEN <<extracted_text>> ELSE lines

\* `if extracted_text: output_lines.append(extracted_text)`
Accumulate(lines, extracted_text) ==
  IF extracted_text # None THEN Append(lines, extracted_text) ELSE lines

\* _handle_prompt: proc.stdin.write(response.encode() + b"\n") and
\* `await proc.stdin.drain()`, which raises ConnectionResetError when the
\* transport is closed; nothing catches that, and the monitor is cancelled
\* on the way out (finally)
AnswerPrompt(response) ==
  /\ stdin_writes' = Append(stdin_writes, response \o <<"\n">>)
  /\ IF pstate = "closed"
       THEN /\ mpc' = MonitorCancel(mpc)
            /\ epc' = "raised"
            /\ ret' = Raised("ConnectionResetError")
       ELSE /\ epc' = "read"
            /\ UNCHANGED <<mpc, ret>>

\* one turn of the reading loop: readline() returned a line, or b"" at the
\* end of the stream, or raised ValueError on a line longer than the limit
\* of the stream, which nothing catches.  At the end the monitor is
\* cancelled (finally), the sentinel is put in an empty accumulator and
\* communicate() is awaited.
ReadLine ==
  /\ epc = "read"
  /\ pout # <<>> \/ pstate \in {"exited", "closed"}
  /\ IF pout = <<>>
       THEN /\ mpc' = MonitorCancel(mpc)
            /\ output_lines' = OrSentinel(output_lines)
            /\ epc' = "communicate"
            /\ UNCHANGED <<pout, stdin_writes, asked, ret>>
       ELSE IF ExceedsLimit(Head(pout))
       THEN /\ pout' = Tail(pout)
            /\ mpc' = MonitorCancel(mpc)
            /\ epc' = "raised"
            /\ ret' = Raised("ValueError")
            /\ UNCHANGED <<output_lines, stdin_writes, asked>>
       ELSE LET decoded_line == Strip(Head(pout))
                extracted_text == ExtractMeaningfulText(decoded_line)
            IN /\ pout' = Tail(pout)
               /\ output_lines' = Accumulate(output_lines, extracted_text)
               /\ IF ShouldHandlePrompt(decoded_line)
                    THEN IF Contains(Lower(decoded_line), "password:")
                           THEN IF Truthy(sudo_password)
                                  THEN /\ AnswerPrompt(sudo_password)
                                       /\ UNCHANGED asked
                                  ELSE /\ asked' = asked \cup {"prompt_password"}
                                       /\ epc' = "prompt_input"
                                       /\ UNCHANGED <<stdin_writes, mpc, ret>>
                           ELSE /\ AnswerPrompt(<<"yes">>)
                                /\ UNCHANGED asked
                    ELSE /\ epc' = "read"
                         /\ UNCHANGED <<stdin_writes, asked, mpc, ret>>
  /\ UNCHANGED <<history, credVars, ecalls, start_command, answered, confirmed, ecmd,
                 spawned, cancelled_at, at_call, pstate, returncode, perr, pwrote,
                 pwritten, termsent, probe, left_running, monitor_choice, queueVars>>

\* _handle_prompt: the human answers "Enter password: "
PromptPasswordAnswer(password) ==
  /\ epc = "prompt_input"
  /\ AnswerPrompt(password)
  /\ UNCHANGED <<history, credVars, callVars, output_lines, pstate, returncode, pout,
                 perr, pwrote, pwritten, termsent, probe, left_running, monitor_choice, queueVars>>

\* ------------------------------------------ _finalize_command_output
\* `return output_str if proc.returncode == 0 else f"Error: {error_str}"`
FinalValue(code, output_str, error_str) ==
  IF code = 0 THEN output_str ELSE ErrorPrefix \o error_str

\* the lines of the final output: the accumulator, the lines of what
\* communicate() still found on stdout, the sentinel when there are none,
\* and the truncation
FinalLines(lines, output) ==
  LET additional_output == Strip(output)
      all == IF additional_output # <<>> THEN lines \o SplitLines(additional_output)
                                         ELSE lines
  IN Truncate(OrSentinel(all))

\* C31 mutant: history keeps the record of the latest command only
HistoryKeepsLatest(records, record) == <<record>>

\* self.history.append({...}): the record goes to the end of the list
HistoryAppend(records, record) == Append(records, record)

\* communicate() has returned what was left on the pipes; the record is
\* appended to history, the credential is cleared and the value is returned
Finalize ==
  /\ epc = "communicate"
  /\ pstate \in {"exited", "closed"}
  /\ LET output_str == Join(FinalLines(output_lines, Concat(pout)))
         error_str == Strip(perr)
     IN /\ history' = HistoryAppend(history, [command |-> ecmd, output |-> output_str,
                                              error |-> error_str])
        /\ ret' = Returned(confirmed, FinalValue(returncode, output_str, error_str))
  /\ sudo_password' = None
  /\ epc' = "returned"
  /\ UNCHANGED <<ui_pswd, validated, callVars, output_lines, procVars, mpc, probe, left_running, monitor_choice, queueVars>>

\* --------------------------------------------------- _monitor_execution
\* asyncio.sleep(self.monitor_interval) is over
MonitorWake ==
  /\ mpc = "sleep"
  /\ mpc' = IF returncode # NoCode THEN "done" ELSE "ask"
  /\ UNCHANGED <<history, credVars, callVars, epc, output_lines, ret, procVars, probe,
                 left_running, monitor_choice, queueVars>>

\* the human answers "Cancel execution? (y/n)"
MonitorAnswer(user_choice) ==
  /\ mpc = "ask"
  /\ mpc' = IF Affirmative(user_choice) THEN "print" ELSE "sleep"
  /\ monitor_choice' = user_choice
  /\ UNCHANGED <<history, credVars, callVars, epc, output_lines, ret, procVars, probe,
                 left_running, queueVars>>

\* "Terminating command execution..." has been printed: proc.terminate(),
\* which raises ProcessLookupError inside the monitor task when the
\* transport is closed, and does nothing to a process that has exited
MonitorTerminate ==
  /\ mpc = "print"
  /\ IF pstate = "closed"
       THEN /\ mpc' = "failed"
            /\ UNCHANGED termsent
       ELSE /\ mpc' = "done"
            /\ termsent' = (termsent \/ pstate = "running")
  /\ UNCHANGED <<history, credVars, callVars, epc, output_lines, ret, pstate, returncode,
                 pout, perr, pwrote, pwritten, stdin_writes, probe, left_running, monitor_choice, queueVars>>

\* ----------------------------------------------- caller cancellation
\* The task running start() is cancelled while suspended.  Inside the
\* reading loop `except asyncio.CancelledError` terminates the process,
\* which raises ProcessLookupError when the transport is closed; anywhere
\* else the CancelledError leaves start().
CancelExec ==
  /\ epc \in Suspended
  /\ cancelled_at = "none"
  /\ cancelled_at' = epc
  /\ IF epc \in ReadingLoop
       THEN IF pstate = "closed"
              THEN /\ mpc' = MonitorCancel(mpc)
                   /\ epc' = "raised"
                   /\ ret' = Raised("ProcessLookupError")
                   /\ UNCHANGED termsent
              ELSE /\ termsent' = (termsent \/ pstate = "running")
                   /\ epc' = "cancel_wait"
                   /\ UNCHANGED <<mpc, ret>>
       ELSE /\ epc' = "raised"
            /\ ret' = Raised("CancelledError")
            /\ UNCHANGED <<mpc, termsent>>
  /\ UNCHANGED <<history, credVars, ecalls, start_command, answered, confirmed, ecmd,
                 spawned, asked, at_call, output_lines, pstate, returncode, pout, perr,
                 pwrote, pwritten, stdin_writes, probe, left_running, monitor_choice, queueVars>>

\* `await proc.wait()` is over: the accumulated lines are returned and the
\* monitor is cancelled (finally)
CancelWaitDone ==
  /\ epc = "cancel_wait"
  /\ pstate \in {"exited", "closed"}
  /\ mpc' = MonitorCancel(mpc)
  /\ epc' = "returned"
  /\ ret' = Returned(confirmed, Join(output_lines))
  /\ UNCHANGED <<history, credVars, callVars, output_lines, procVars, probe, left_running, monitor_choice, queueVars>>

\* --------------------------------------------------- specifications
\* start() calls one after the other, none of them cancelled
NextExec ==
  \/ \E cmd \in Proposals : ExecStart(cmd)
  \/ \E typed \in HumanCommands : ConfirmAnswer(typed)
  \/ \E password \in PasswordAnswers : SudoPasswordAnswer(password)
  \/ ProbeSpawnDone
  \/ ProbeSpawnFails
  \/ \E code \in ExitCodes : ProbeExit(code)
  \/ WrongPasswordPrinted
  \/ SpawnDone
  \/ SpawnFails
  \/ \E line \in RawLines : ProcWrite(line)
  \/ \E code \in ExitCodes \cup {Sigterm}, err \in ErrTexts : ProcExit(code, err)
  \/ TransportClosed
  \/ ReadLine
  \/ \E password \in PasswordAnswers : PromptPasswordAnswer(password)
  \/ Finalize
  \/ MonitorWake
  \/ \E user_choice \in MonitorAnswers : MonitorAnswer(user_choice)
  \/ MonitorTerminate

SpecExec == Init /\ [][NextExec]_vars

\* the same, and the caller may cancel a call
NextExecCancel ==
  \/ NextExec
  \/ CancelExec
  \/ CancelWaitDone

SpecExecCancel == Init /\ [][NextExecCancel]_vars

\* the calls of SpecExec, and one more after a call that failed
NextExecAgain ==
  \/ NextExec
  \/ \E cmd \in Proposals : ExecStartAfterFailure(cmd)
  \/ LeftoverExit

\* the orchestration calls start() once more after a call that appended its
\* record to history
ExecStartAfterRecord(cmd) ==
  /\ epc = "returned"
  /\ Len(history) = 1
  /\ ecalls = MaxCalls
  /\ StartBody(cmd)

SpecExecAgain == Init /\ [][NextExecAgain]_vars

\* the calls of SpecExecCancel, and one more after a call that was finalized
NextExecHistory ==
  \/ NextExecCancel
  \/ \E cmd \in Proposals : ExecStartAfterRecord(cmd)

SpecExecHistory == Init /\ [][NextExecHistory]_vars

\* ------------------------------------------------------------ properties
\* the start() call has returned or raised
CallEnded == epc \in {"returned", "raised"}

\* the call went through _finalize_command_output
Finalized == epc = "returned" /\ Len(history) = Len(at_call.history) + 1

\* the process of the command is over
ProcessOver == pstate \in {"exited", "closed"}

\* the record appended by the call
LastRecord == history[Len(history)]

\* what the reading loop keeps of the raw lines of stdout
RECURSIVE Sanitized(_)
Sanitized(raw) ==
  IF raw = <<>> THEN <<>>
  ELSE LET extracted_text == ExtractMeaningfulText(Strip(Head(raw)))
       IN (IF extracted_text = None THEN <<>> ELSE <<extracted_text>>)
            \o Sanitized(Tail(raw))

\* the commands that executing cmd may hand to create_subprocess_shell
SpawnableFor(cmd) ==
  IF RequireSudo(cmd)
    THEN {ProbeCommand(pw) : pw \in PasswordAnswers \ {<<>>}}
           \cup {SudoRewrite(pw, cmd) : pw \in PasswordAnswers \ {<<>>}}
    ELSE {cmd}

\* C12: the human gate.  Nothing is spawned, neither the credential probe
\* nor the command, before the human has sent back a non-empty text from
\* the confirmation prompt; the command that is executed and the
\* confirmed_command that start() returns are the text the human sent
\* back, also when they typed over the command proposed.
C12_HumanGate ==
  /\ (spawned # <<>> \/ pstate # "none" \/ probe # "none" \/ ecmd # None) => Truthy(answered)
  /\ Truthy(answered) => confirmed = answered
  /\ \A i \in 1..Len(spawned) : spawned[i] \in SpawnableFor(answered)
  /\ ecmd # None => ecmd \in SpawnableFor(answered)
  /\ ret.kind = "returned" => ret.confirmed = (IF Truthy(answered) THEN answered ELSE None)

\* the human typed a privileged command over the one proposed; the probe
\* and the command they typed were spawned, and start() returned their text
C12_Witness ==
  /\ epc = "returned"
  /\ LStrip(start_command) = CmdId
  /\ answered = CmdSudoId
  /\ Len(spawned) = 2
  /\ ret.confirmed = CmdSudoId
  /\ Len(history) = 1

\* C13: when the human sends back an empty text from the confirmation
\* prompt, start() returns (None, None); no subprocess was spawned, no
\* credential was asked for, history and the credential are as they were.
C13_Declined ==
  (ecalls > 0 /\ answered = <<>>) =>
    /\ epc = "returned"
    /\ ret = Returned(None, None)
    /\ spawned = <<>> /\ pstate = "none" /\ probe = "none"
    /\ asked = {"confirm"}
    /\ history = at_call.history
    /\ sudo_password = at_call.sudo_password /\ ui_pswd = at_call.ui_pswd

C13_Witness == epc = "returned" /\ Truthy(start_command) /\ answered = <<>>

\* C14: start() with an empty or missing command returns
\* (None, "No command specified.") at once: the human was asked nothing, no
\* subprocess was spawned, history and the cached credential are unchanged.
C14_NoCommand ==
  (ecalls > 0 /\ ~Truthy(start_command)) =>
    /\ epc = "returned"
    /\ ret = Returned(None, NoCommandSpecified)
    /\ asked = {} /\ answered = None
    /\ spawned = <<>> /\ pstate = "none" /\ probe = "none"
    /\ history = at_call.history
    /\ sudo_password = at_call.sudo_password /\ ui_pswd = at_call.ui_pswd

C14_Witness == ecalls > 0 /\ start_command = <<>> /\ epc = "returned"

\* C15: when the process of a confirmed command has exited with code 0
\* after writing to stdout, start() returns the sanitized lines of stdout,
\* in order and truncated to the line limit (the sentinel when no line
\* survives the sanitizing), and history has one record more than before
\* the call.
C15_StdoutReturned ==
  (CallEnded /\ ProcessOver /\ returncode = 0 /\ pwrote # <<>>) =>
    /\ ret = Returned(confirmed, Join(Truncate(OrSentinel(Sanitized(pwrote)))))
    /\ Len(history) = Len(at_call.history) + 1

\* C16: when the process of an executed command has ended with a non-zero
\* exit code, start() returns "Error: " followed by the stderr text: not
\* the stdout text, and not an exception.
C16_ErrorReturned ==
  (CallEnded /\ ProcessOver /\ returncode # 0) =>
    ret = Returned(confirmed, ErrorPrefix \o Strip(perr))

\* C17: a command whose process wrote nothing to stdout and exited with
\* code 0 makes start() return the "No output received..." sentinel, never
\* an empty string, and the output of the record in history is the sentinel.
C17_SilentCommand ==
  (CallEnded /\ ProcessOver /\ returncode = 0 /\ pwrote = <<>>) =>
    /\ ret = Returned(confirmed, NoOutputReceived)
    /\ ret.output # <<>>
    /\ Finalized
    /\ LastRecord.output = NoOutputReceived

C17_Witness ==
  /\ Finalized /\ pwrote = <<>> /\ returncode = 0
  /\ ret.output = NoOutputReceived

\* C18: truncation.  When the call is finalized with more than
\* MAX_OUTPUT_LINES lines of output, the final output is the earliest
\* MAX_OUTPUT_LINES of them, in order, and then one "[Output truncated]"
\* line; with MAX_OUTPUT_LINES lines or fewer it is those lines and no
\* marker.  It is the output recorded, and the value returned on exit code 0.
C18_Truncation ==
  Finalized =>
    LET final == SplitLines(LastRecord.output)
        kept == IF Len(output_lines) > MAX_OUTPUT_LINES THEN MAX_OUTPUT_LINES
                                                        ELSE Len(output_lines)
    IN /\ \A i \in 1..kept : final[i] = output_lines[i] /\ final[i] # OutputTruncated
       /\ IF Len(output_lines) > MAX_OUTPUT_LINES
            THEN Len(final) = kept + 1 /\ final[kept + 1] = OutputTruncated
            ELSE Len(final) = kept
       /\ returncode = 0 => ret.output = LastRecord.output

C18_Witness ==
  /\ Finalized /\ returncode = 0
  /\ Len(output_lines) = MAX_OUTPUT_LINES + 1
  /\ output_lines[1] # output_lines[MAX_OUTPUT_LINES + 1]

\* C19: when the caller cancels the call while it is suspended inside the
\* reading loop, the call ends by returning the lines accumulated so far,
\* joined by newlines, and the process is over.
C19_CancelReturnsPartial ==
  (cancelled_at \in ReadingLoop /\ CallEnded) =>
    /\ ret = Returned(confirmed, Join(output_lines))
    /\ ProcessOver

\* C20: when the monitor has terminated the command on the human's "y" or
\* "yes", the call ends by returning the output accumulated, not an error
\* and not an exception.
C20_MonitorAbortReturnsOutput ==
  (termsent /\ mpc = "done" /\ CallEnded) =>
    ret = Returned(confirmed, Join(FinalLines(output_lines, <<>>)))

\* the confirmation phrases among the keywords
ConfirmationPhrases == PromptKeywords \ {"password:"}

\* the reading loop handles the line at the head of the buffer of stdout
LineHandled ==
  /\ epc = "read"
  /\ pout # <<>>
  /\ pout' = Tail(pout)
  /\ ~ExceedsLimit(Head(pout))

\* the line being handled, as _should_handle_prompt sees it
HandledLine == Lower(Strip(Head(pout)))

\* exactly one write to proc.stdin, of the response and a newline
OneWrite(response) == stdin_writes' = Append(stdin_writes, response \o <<"\n">>)

\* C21 as stated: a line containing a confirmation phrase causes exactly one
\* write of "yes\n" with no human interaction, a line containing "password:"
\* is answered with the cached credential when there is one, a line without
\* a phrase causes no write.
C21_SyntheticAnswers ==
  [][LineHandled =>
       /\ (\E kw \in ConfirmationPhrases : Contains(HandledLine, kw)) =>
            (OneWrite(<<"yes">>) /\ asked' = asked)
       /\ (Contains(HandledLine, "password:") /\ Truthy(sudo_password)) =>
            OneWrite(sudo_password)
       /\ (~\E kw \in PromptKeywords : Contains(HandledLine, kw)) =>
            stdin_writes' = stdin_writes]_vars

\* C21 amended: "password:" goes first.  A line containing "password:",
\* with or without a confirmation phrase, is answered with the cached
\* credential when there is one and otherwise makes the executor ask the
\* human for a password, nothing being written until they answer; a line
\* containing a confirmation phrase and not "password:" causes exactly one
\* write of "yes\n" with no human interaction; a line without a phrase
\* causes no write.
C21_PasswordFirst ==
  [][LineHandled =>
       /\ (Contains(HandledLine, "password:") /\ Truthy(sudo_password)) =>
            (OneWrite(sudo_password) /\ asked' = asked)
       /\ (Contains(HandledLine, "password:") /\ ~Truthy(sudo_password)) =>
            /\ stdin_writes' = stdin_writes
            /\ asked' = asked \cup {"prompt_password"}
            /\ epc' = "prompt_input"
       /\ ((\E kw \in ConfirmationPhrases : Contains(HandledLine, kw))
             /\ ~Contains(HandledLine, "password:")) =>
            (OneWrite(<<"yes">>) /\ asked' = asked)
       /\ (~\E kw \in PromptKeywords : Contains(HandledLine, kw)) =>
            (stdin_writes' = stdin_writes /\ asked' = asked)]_vars

\* a privileged command printed a confirmation prompt and then a
\* confirmation prompt about a password: "yes" and then the cached
\* credential were written, and the human was not asked for a password again
C21_Witness ==
  /\ pwrote = << <<"Continue?", " ", "(Y/N)", "\n">>,
                 <<"Save", " ", "password:", " ", "[y/n]", "\n">> >>
  /\ pout = <<>>
  /\ stdin_writes = << <<"yes", "\n">>, <<"p", "\n">> >>
  /\ "prompt_password" \notin asked

\* C22: the executor never raises outward.  Whatever fails (declined
\* confirmation, bad or declined credential, spawn failure, termination by
\* the monitor, failure while answering a prompt, non-zero exit), start()
\* ends by returning a value: no exception leaves it.
C22_NeverRaises == epc # "raised" /\ ret.kind # "raised"

\* the monitor task is alive
MonitorAlive == mpc \in {"sleep", "ask", "print"}

\* C23: cleanup on every exit path.  Whenever a call has ended, by
\* returning, by the cancellation of its caller or by a failure, the
\* process it spawned is over and the monitor is not alive: no process
\* (the command's or the credential probe's) and no monitor outlives the call.
C23_CleanupOnExit ==
  CallEnded =>
    /\ pstate # "none" => ProcessOver
    /\ probe # "running"
    /\ ~MonitorAlive

\* the human sent back an empty text from "Enter sudo password: "
CredentialDeclined == CallEnded /\ "sudo_password" \in asked /\ sudo_password = <<>>

\* the probe of the password typed by the human exited with a non-zero code
ProbeFailed == CallEnded /\ probe = "failed"

\* C24: authentication failure of a privileged command.  When no
\* credential is cached and the human declines the password prompt, or the
\* probe of what they typed fails, the call returns the confirmed command
\* with None (no exception), the command itself was never spawned, history
\* is what it was and no credential is left, neither in the executor nor
\* in the user interface.
C24_AuthFailure ==
  (CredentialDeclined \/ ProbeFailed) =>
    /\ RequireSudo(confirmed)
    /\ ~Truthy(at_call.sudo_password) /\ ~Truthy(at_call.ui_pswd)
    /\ ret = Returned(confirmed, None)
    /\ pstate = "none" /\ ecmd = None
    /\ \A i \in 1..Len(spawned) : \E pw \in PasswordAnswers : spawned[i] = ProbeCommand(pw)
    /\ history = at_call.history
    /\ ~Truthy(sudo_password) /\ ~Truthy(ui_pswd)

\* the probe failed, "Wrong password" was printed and the call returned
C24_Witness ==
  /\ epc = "returned"
  /\ probe = "failed"
  /\ spawned = <<ProbeCommand(<<"p">>)>>
  /\ ret = Returned(CmdSudoId, None)

\* the executor is between storing the human's answer and knowing the
\* outcome of its probe: no command can use the credential yet
ProbePending == epc \in {"probe_spawn", "probe"}

\* C25: a credential is cached only if its probe succeeded.  Outside the
\* probe itself, a credential held by the executor or by the user
\* interface is one with which a probe has exited with code 0; when the
\* probe has failed both copies are None and "Wrong password" is printed.
C25_CachedOnlyIfValidated ==
  /\ (Truthy(sudo_password) /\ ~ProbePending) => sudo_password \in validated
  /\ Truthy(ui_pswd) => ui_pswd \in validated
  /\ probe = "failed" =>
       /\ sudo_password = None /\ ui_pswd = None
       /\ epc = "wrong_print" \/ CallEnded

\* C26: the credential is discarded after completion.  When a call for a
\* privileged command has ended and the process of the command is over,
\* whatever its exit code, the executor holds no credential any more.
C26_CredentialDiscarded ==
  (CallEnded /\ RequireSudo(confirmed) /\ ProcessOver) => sudo_password = None

\* the text sub occurs in the text s
Occurs(sub, s) ==
  \E k \in 0..(Len(s) - Len(sub)) : \A j \in 1..Len(sub) : s[k + j] = sub[j]

\* C27: the credential reaches sudo through stdin only.  No command string
\* handed to create_subprocess_shell, for the probe or for the command,
\* contains a password typed by the human.
C27_SecretNotInCommand ==
  \A i \in 1..Len(spawned) :
    \A pw \in PasswordAnswers : Truthy(pw) => ~Occurs(pw, spawned[i])

\* the number of live subprocesses of the executor
LiveProcesses ==
  (IF pstate = "running" THEN 1 ELSE 0) + (IF probe = "running" THEN 1 ELSE 0)
    + (IF left_running THEN 1 ELSE 0)

\* C28: the executor has at most one live subprocess at any time: the
\* probe has exited when the command is spawned, and no process of an
\* earlier call is running while a call has a process of its own.
C28_OneSubprocess ==
  /\ LiveProcesses <= 1
  /\ pstate # "none" => probe \in {"none", "ok"}

\* a step of the monitor task: it leaves one of its three awaits while the
\* call stays where it is
MonitorStep == MonitorAlive /\ mpc' # mpc /\ epc' = epc

\* a step of the reading loop: a line or the end of the stream is read, or
\* the human's password is written to the process
ReaderStep ==
  /\ epc \in ReadingLoop
  /\ cancelled_at' = "none"
  /\ epc' # epc \/ pout' # pout \/ stdin_writes' # stdin_writes
  /\ Len(pout') <= Len(pout)

\* lines is lines0 or lines0 with one line appended
AppendedTo(lines0, lines) ==
  /\ Len(lines) \in {Len(lines0), Len(lines0) + 1}
  /\ SubSeq(lines, 1, Len(lines0)) = lines0

\* C29: the monitor and the reading loop touch disjoint state.  A step of
\* the monitor changes nothing of the executor (accumulator, history,
\* credential, prompts answered) and at most sends the termination signal,
\* which it does only from its last await; a step of the reading loop at
\* most appends to the accumulator: it changes neither history nor the
\* credential and sends no termination signal.
C29_DisjointState ==
  [][/\ MonitorStep =>
          /\ UNCHANGED <<output_lines, history, credVars, ret, stdin_writes, pstate, pout>>
          /\ termsent' # termsent => (mpc = "print" /\ pstate = "running")
     /\ ReaderStep =>
          /\ AppendedTo(output_lines, output_lines')
          /\ UNCHANGED <<history, credVars, termsent, pstate, returncode>>]_vars

\* the monitor has terminated the process while the reading loop goes on
\* with the lines it has accumulated
C29_Witness ==
  /\ termsent /\ mpc = "done"
  /\ epc = "read"
  /\ output_lines # <<>>
  /\ pout # <<>>

\* the human's last answer to the monitor is "y" or "yes", in any case and
\* with blanks around it
SaidYes == monitor_choice # None /\ Lower(Strip(monitor_choice)) \in {<<"y">>, <<"yes">>}

\* C30: the monitor terminates the process only after an affirmative
\* answer.  It asks only when a sleep of a full interval is over and it
\* has not seen the process exited; it sends the signal only from the
\* notice that follows an answer "y" or "yes"; after any other answer it
\* leaves the process alone and goes back to sleep, so that it asks again
\* only after another interval; once it saw the process exited it stops.
C30_MonitorAsksFirst ==
  [][/\ (mpc' = "ask" /\ mpc # "ask") => (mpc = "sleep" /\ returncode = NoCode)
     /\ (mpc' = "print" /\ mpc # "print") => (mpc = "ask" /\ SaidYes')
     /\ (MonitorStep /\ termsent' # termsent) => (mpc = "print" /\ SaidYes)
     /\ (MonitorStep /\ mpc = "ask" /\ ~SaidYes') =>
          (mpc' = "sleep" /\ UNCHANGED <<termsent, pstate, returncode>>)
     /\ (MonitorStep /\ mpc = "sleep" /\ returncode # NoCode) => mpc' = "done"
     /\ mpc = "done" => mpc' \in {"done", "none"}]_vars

\* the human said no, the monitor slept another interval and asked again
\* (the answer before this question was not a yes, and the process runs on)
C30_Witness ==
  /\ mpc = "ask"
  /\ monitor_choice = <<"n">>
  /\ pstate = "running" /\ ~termsent

\* the call went through _process_command_output to the end of the stream
\* of its process without being cancelled, that is to
\* _finalize_command_output
ReachedFinalization == epc = "returned" /\ pstate # "none" /\ cancelled_at = "none"

\* the call was cancelled by its caller
CallCancelled == cancelled_at # "none"

\* C31: history is append-only.  During and after every start() call the
\* history is what it was when the call was made, followed by at most one
\* record; the record is there exactly when the call has reached
\* finalization (whatever the exit code), it holds the command that was
\* spawned and the text the call returned; an empty command, a declined
\* confirmation, an authentication failure and a cancelled execution leave
\* history as it was.
C31_AppendOnly ==
  LET before == at_call.history
  IN /\ Len(before) <= Len(history)
     /\ Len(history) <= Len(before) + 1
     /\ \A i \in 1..Len(before) : history[i] = before[i]
     /\ ReachedFinalization <=> (Len(history) = Len(before) + 1)
     /\ ReachedFinalization =>
          /\ LastRecord.command = ecmd
          /\ ret.output = FinalValue(returncode, LastRecord.output, LastRecord.error)
     /\ (\/ ecalls > 0 /\ ~Truthy(start_command)
         \/ ecalls > 0 /\ answered = <<>>
         \/ CredentialDeclined
         \/ ProbeFailed
         \/ CallCancelled) => history = before

\* a second call was finalized with a non-zero exit code: its record follows
\* the record of the first call, which is as it was
C31_Witness ==
  /\ epc = "returned"
  /\ returncode # 0
  /\ Len(at_call.history) = 1
  /\ Len(history) = 2
  /\ history[1] = at_call.history[1]
  /\ history[2] # history[1]

\* a stop() call is suspended in `await self.worker_task`
StopInProgress == \E s \in Stoppers : spc[s] = "waiting"

\* C32: no lost wake-up in the queue.  Whenever no stop() call is in
\* progress and the last lifecycle call made was not stop(), a task waiting in
\* the queue has a worker task that is running or scheduled to run: the
\* worker never exits past a queued task, and an enqueue call that does not
\* launch a worker is served by the one that is alive.
C32_NoLostWakeup ==
  (~StopInProgress /\ lifecycle # "stop" /\ task_queue # <<>>)
    => \E w \in Workers : Alive(w)

\* the worker task w ended with an exception raised by the loop itself
WorkerDied(w) == wstate[w] = "failed"

\* C33: the worker survives a cancelled caller.  Whatever callers are
\* cancelled while they are suspended in enqueue(), before or while their
\* unit of work runs, no worker task ends with an exception: the loop goes
\* on to the tasks queued behind the cancelled one.
C33_WorkerSurvivesCancel == \A w \in Workers : ~WorkerDied(w)

\* caller c is suspended in enqueue() with a unit of work that calls
\* enqueue() itself
NestedWaiting(c) == cpc[c] = "waiting" /\ Reenters(ccall[c].func)

\* C34: re-entrant enqueue.  With enqueue calls only and fair scheduling, a
\* unit of work that calls enqueue() on the same TaskManager and awaits the
\* result completes: the nested task is eventually executed, and the inner
\* and the outer future are eventually resolved.
C34_ReentrantCompletes ==
  \A c \in Callers :
    NestedWaiting(c) ~>
      (/\ Inner(c) \in Range(startOrder)
       /\ Resolved(Inner(c))
       /\ Resolved(c))

\* the text of the record r holds the password pw
RecordHolds(r, pw) ==
  \/ Occurs(pw, r.command)
  \/ Occurs(pw, r.output)
  \/ Occurs(pw, r.error)

\* C35: no record of history contains the credential.  Whatever privileged
\* command reached finalization, the command, output and error fields of
\* its record do not include a password typed by the human.
C35_NoCredentialInHistory ==
  \A i \in 1..Len(history) :
    \A pw \in PasswordAnswers : Truthy(pw) => ~RecordHolds(history[i], pw)

\* the call went as far as execute_command: the human confirmed a command
Executed == Truthy(confirmed)

\* C36: no credential survives any exit of execute_command.  When a call
\* that reached execute_command has ended, by a return or by an exception
\* (normal completion, non-zero exit, authentication failure, spawn failure,
\* cancellation by the caller), the executor holds no password: its
\* sudo_password is None (or the empty answer of a human who declined).
C36_NoCredentialSurvives ==
  (CallEnded /\ Executed) => ~Truthy(sudo_password)
====
